---- MODULE Spec2Model ----
(***************************************************************************)
(* Model of the explicit-free-list allocator of mm.c: boundary tags,      *)
(* first-fit search over a head-inserted doubly linked free list,         *)
(* immediate coalescing, copy-based realloc.                               *)
(*                                                                         *)
(* Memory is a sparse map from addresses to cells.  A cell <<v, WordIx>>   *)
(* at p says that the 8 bytes p..p+7 hold the word v stored by PUT or      *)
(* PUT_PTR; a cell <<v, k>> with k in 0..7 is the single byte k of a word  *)
(* v; a cell <<b, DataIx>> is a byte b stored by the caller.  A byte no    *)
(* cell covers was never written.                                          *)
(*                                                                         *)
(* Three callers are specified.  Spec: requests of 1, 24 and 4080 bytes    *)
(* under four arena limits, with the caller's own stores.  SpecLarge:      *)
(* requests up to CHUNKSIZE + 16 bytes after adjustment.  SpecWide:        *)
(* requests near 2^64, where the size_t arithmetic of mm_malloc wraps.     *)
(***************************************************************************)
EXTENDS Integers, Sequences, FiniteSets, TLC

(* ---------------- program constants (mm.c:55-58) ---------------- *)
WSIZE == 8
DSIZE == 16
CHUNKSIZE == 4096
OVERHEAD == 16
NULL == 0

(* ---------------- the backing-memory primitive (memlib) ---------------- *)
\* first address of the arena
MemHeap == 65536
\* the value mem_sbrk returns on failure, (void *)-1
SbrkFail == -1

\* mem_sbrk(incr) on break brk with limit max: the old break and the moved
\* break, or the failure value and an unmoved break
mem_sbrk(brk, max, incr) ==
    IF incr < 0 \/ brk + incr > max
    THEN [ret |-> SbrkFail, brk |-> brk]
    ELSE [ret |-> brk, brk |-> brk + incr]

(* ---------------- bounds and inputs of the model ---------------- *)
\* most allocations the caller holds at once
MaxLive == 2
\* most calls the caller makes after mm_init
MaxOps == 5
\* request sizes the caller uses
Sizes == {1, 24, 4080}
\* arena budgets: how far the primitive lets the break move
MaxHeaps == {DSIZE, 4 * WSIZE, 4 * WSIZE + CHUNKSIZE, 4 * WSIZE + 2 * CHUNKSIZE}
\* payload offsets at which the caller stores bytes
FillOffsets == {0, 15, 16, 39, 40, 99}

(* ---------------- memory cells ---------------- *)
\* F applied to the value of v: the value is computed once and then named,
\* as a C statement computes a value once and stores it in a local
Let(v, F(_)) == CHOOSE y \in {F(x) : x \in {v}} : TRUE

\* second component of a cell: 0..7 for byte k of a word, DataIx for a byte
\* the caller stored, WordIx for a whole word stored at the cell's address
DataIx == WSIZE
WordIx == WSIZE + 1
\* the value of a word read where no single word was stored
Junk == -1
EmptyMem == [a \in {} |-> <<0, 0>>]
Unwritten == <<Junk, Junk>>

IsWordAt(m, q) == q \in DOMAIN m /\ m[q][2] = WordIx

\* the byte at address a
ByteAt(m, a) ==
    IF a \in DOMAIN m /\ m[a][2] # WordIx THEN m[a]
    ELSE Let({k \in 0..(WSIZE - 1) : IsWordAt(m, a - k)}, LAMBDA ks :
           IF ks = {} THEN Unwritten
           ELSE Let(CHOOSE k \in ks : TRUE, LAMBDA k : <<m[a - k][1], k>>))

\* memory m after the bytes at the addresses of set A are overwritten by the
\* cells of new (all inside A); a word that A cuts survives as single bytes
StoreBytes(m, A, new) ==
    Let({q \in DOMAIN m : m[q][2] = WordIx /\
                          \E k \in 0..(WSIZE - 1) : (q + k) \in A}, LAMBDA cut :
    Let({q \in DOMAIN m \ cut : q \notin A}, LAMBDA keep :
    Let({a \in UNION {q..(q + WSIZE - 1) : q \in cut} : a \notin A}, LAMBDA left :
      [a \in keep \cup left \cup DOMAIN new |->
          IF a \in DOMAIN new THEN new[a]
          ELSE IF a \in keep THEN m[a]
          ELSE Let(CHOOSE q \in cut : a \in q..(q + WSIZE - 1), LAMBDA q :
                 <<m[q][1], a - q>>)])))

\* *(size_t *)p
GET(m, p) ==
    IF IsWordAt(m, p) THEN m[p][1]
    ELSE Let(ByteAt(m, p), LAMBDA b0 :
           IF \A k \in 0..(WSIZE - 1) : ByteAt(m, p + k) = <<b0[1], k>>
           THEN b0[1]
           ELSE Junk)

\* *(size_t *)p = val, for values of m, p and val
PutWord(m, p, val) ==
    IF IsWordAt(m, p) THEN [m EXCEPT ![p] = <<val, WordIx>>]
    ELSE IF \A a \in (p - WSIZE + 1)..(p + WSIZE - 1) :
               a \notin DOMAIN m \/ (a < p /\ m[a][2] # WordIx)
    THEN (p :> <<val, WordIx>>) @@ m
    ELSE StoreBytes(m, p..(p + WSIZE - 1), p :> <<val, WordIx>>)

\* *(size_t *)p = val
PUT(m, p, val) ==
    Let(p, LAMBDA pv : Let(val, LAMBDA vv : PutWord(m, pv, vv)))

GET_PTR(m, p) == GET(m, p)
PUT_PTR(m, p, val) == PUT(m, p, val)

\* size | alloc, for alloc in {0, 1}
PACK(size, alloc) == IF alloc = 1 /\ size % 2 = 0 THEN size + 1 ELSE size

\* GET(p) & ~0xf and GET(p) & 0x1
GET_SIZE(m, p) == Let(GET(m, p), LAMBDA w : w - (w % 16))
GET_ALLOC(m, p) == GET(m, p) % 2

PADD(p, val) == p + val
PSUB(p, val) == p - val

HDRP(bp) == PSUB(bp, WSIZE)
FTRP(m, bp) == PADD(bp, GET_SIZE(m, HDRP(bp)) - DSIZE)
NEXT_BLKP(m, bp) == PADD(bp, GET_SIZE(m, HDRP(bp)))
PREV_BLKP(m, bp) == PSUB(bp, GET_SIZE(m, PSUB(bp, DSIZE)))

\* address of the cell that holds the free-list head
LL_START(hs) == PSUB(hs, 16)

\* size_t: a value of 2^63 or more is written as the negative integer with
\* the same 64 bits (the value less 2^64), so that sums, differences and
\* multiples modulo 2^64 are the integer ones.  x < y and x <= y on size_t
ULT(x, y) == IF (x < 0) = (y < 0) THEN x < y ELSE y < 0
ULE(x, y) == x = y \/ ULT(x, y)

max(x, y) == IF ULT(y, x) THEN x ELSE y

(* ---------------- free list index ---------------- *)
\* In the operators below a memory is always a value named by Let (m, m1,
\* m2, ... are the successive contents of the arena as the statements run)

\* a remove_node that, taking out the head, leaves the new head's previous
\* link as it was
remove_node_keeps_prev_link(m, hs, bp) ==
    IF GET_PTR(m, LL_START(hs)) = NULL THEN m
    ELSE IF bp = NULL THEN m
    ELSE
      Let(GET_PTR(m, bp), LAMBDA pblkp :
      Let(GET_PTR(m, PADD(bp, 8)), LAMBDA nblkp :
        IF pblkp = NULL /\ nblkp = NULL
          THEN PUT_PTR(m, LL_START(hs), NULL)
        ELSE IF nblkp = NULL
          THEN PUT_PTR(m, PADD(pblkp, 8), NULL)
        ELSE IF pblkp = NULL
          THEN PUT_PTR(m, LL_START(hs), nblkp)
        ELSE Let(PUT_PTR(m, nblkp, pblkp), LAMBDA m1 :
               PUT_PTR(m1, PADD(pblkp, 8), nblkp))))

remove_node(m, hs, bp) ==
    IF GET_PTR(m, LL_START(hs)) = NULL THEN m
    ELSE IF bp = NULL THEN m
    ELSE
      Let(GET_PTR(m, bp), LAMBDA pblkp :
      Let(GET_PTR(m, PADD(bp, 8)), LAMBDA nblkp :
        IF pblkp = NULL /\ nblkp = NULL
          THEN PUT_PTR(m, LL_START(hs), NULL)
        ELSE IF nblkp = NULL
          THEN PUT_PTR(m, PADD(pblkp, 8), NULL)
        ELSE IF pblkp = NULL
          THEN Let(PUT_PTR(m, LL_START(hs), nblkp), LAMBDA m1 :
                 PUT_PTR(m1, nblkp, NULL))
        ELSE Let(PUT_PTR(m, nblkp, pblkp), LAMBDA m1 :
               PUT_PTR(m1, PADD(pblkp, 8), nblkp))))

\* an insert_node that puts the block behind the head of a non-empty list
insert_node_behind_head(m, hs, bp) ==
    Let(GET_PTR(m, LL_START(hs)), LAMBDA head :
      IF head = NULL
      THEN Let(PUT_PTR(m, bp, NULL), LAMBDA m1 :
           Let(PUT_PTR(m1, PADD(bp, 8), NULL), LAMBDA m2 :
             PUT_PTR(m2, LL_START(hs), bp)))
      ELSE Let(GET_PTR(m, PADD(head, 8)), LAMBDA next :
           Let(IF next # NULL THEN PUT_PTR(m, next, bp) ELSE m, LAMBDA m1 :
           Let(PUT_PTR(m1, bp, head), LAMBDA m2 :
           Let(PUT_PTR(m2, PADD(bp, 8), next), LAMBDA m3 :
             PUT_PTR(m3, PADD(head, 8), bp))))))

insert_node(m, hs, bp) ==
    Let(GET_PTR(m, LL_START(hs)), LAMBDA head :
    Let(IF head # NULL THEN PUT_PTR(m, head, bp) ELSE m, LAMBDA m1 :
    Let(PUT_PTR(m1, bp, NULL), LAMBDA m2 :
    Let(PUT_PTR(m2, PADD(bp, 8), head), LAMBDA m3 :
      PUT_PTR(m3, LL_START(hs), bp)))))

(* ---------------- coalescing engine ---------------- *)
\* coalesce, both neighbours free: the memory and the returned block pointer
coalesce_both(m, hs, bp) ==
    LET headp == HDRP(bp)
        prev_headp == HDRP(PREV_BLKP(m, bp))
        next_footp == FTRP(m, NEXT_BLKP(m, bp))
    IN  Let(remove_node(m, hs, NEXT_BLKP(m, bp)), LAMBDA m1 :
        Let(remove_node(m1, hs, bp), LAMBDA m2 :
        Let(PUT(m2, prev_headp,
                PACK(GET_SIZE(m2, prev_headp) + GET_SIZE(m2, headp)
                     + GET_SIZE(m2, next_footp), 0)), LAMBDA m3 :
        Let(PUT(m3, next_footp, PACK(GET_SIZE(m3, prev_headp), 0)), LAMBDA m4 :
          [mem |-> m4, bp |-> PREV_BLKP(m4, bp)]))))

\* a coalesce that leaves the absorbed block in the free list
coalesce_prev_keeps_node(m, hs, bp) ==
    LET headp == HDRP(bp)
        footp == FTRP(m, bp)
        prev_headp == HDRP(PREV_BLKP(m, bp))
    IN  Let(PUT(m, prev_headp,
                PACK(GET_SIZE(m, prev_headp) + GET_SIZE(m, headp), 0)), LAMBDA m2 :
        Let(PUT(m2, footp, PACK(GET_SIZE(m2, prev_headp), 0)), LAMBDA m3 :
          [mem |-> m3, bp |-> PREV_BLKP(m3, bp)]))

\* coalesce, only the previous block free
coalesce_prev(m, hs, bp) ==
    LET headp == HDRP(bp)
        footp == FTRP(m, bp)
        prev_headp == HDRP(PREV_BLKP(m, bp))
    IN  Let(remove_node(m, hs, bp), LAMBDA m1 :
        Let(PUT(m1, prev_headp,
                PACK(GET_SIZE(m1, prev_headp) + GET_SIZE(m1, headp), 0)), LAMBDA m2 :
        Let(PUT(m2, footp, PACK(GET_SIZE(m2, prev_headp), 0)), LAMBDA m3 :
          [mem |-> m3, bp |-> PREV_BLKP(m3, bp)])))

\* coalesce, only the next block free
coalesce_next(m, hs, bp) ==
    LET headp == HDRP(bp)
        next_footp == FTRP(m, NEXT_BLKP(m, bp))
    IN  Let(remove_node(m, hs, NEXT_BLKP(m, bp)), LAMBDA m1 :
        Let(PUT(m1, headp,
                PACK(GET_SIZE(m1, headp) + GET_SIZE(m1, next_footp), 0)), LAMBDA m2 :
        Let(PUT(m2, next_footp, PACK(GET_SIZE(m2, headp), 0)), LAMBDA m3 :
          [mem |-> m3, bp |-> bp])))

coalesce(m, hs, bp) ==
    IF bp = NULL THEN [mem |-> m, bp |-> NULL]
    ELSE
      Let(GET_ALLOC(m, HDRP(PREV_BLKP(m, bp))), LAMBDA alloc_bit_prev :
      Let(GET_ALLOC(m, HDRP(NEXT_BLKP(m, bp))), LAMBDA alloc_bit_next :
        IF alloc_bit_next = 0 /\ alloc_bit_prev = 0 THEN coalesce_both(m, hs, bp)
        ELSE IF alloc_bit_prev = 0 THEN coalesce_prev(m, hs, bp)
        ELSE IF alloc_bit_next = 0 THEN coalesce_next(m, hs, bp)
        ELSE [mem |-> m, bp |-> bp]))

(* ---------------- fit and placement ---------------- *)
\* a place_whole that leaves the allocated block in the free list
place_whole_keeps_node(m, hs, bp) ==
    Let(PUT(m, HDRP(bp), PACK(GET_SIZE(m, HDRP(bp)), 1)), LAMBDA m1 :
      PUT(m1, FTRP(m1, bp), PACK(GET_SIZE(m1, FTRP(m1, bp)), 1)))

\* place, the remainder too small: the whole block is allocated
place_whole(m, hs, bp) ==
    Let(PUT(m, HDRP(bp), PACK(GET_SIZE(m, HDRP(bp)), 1)), LAMBDA m1 :
    Let(PUT(m1, FTRP(m1, bp), PACK(GET_SIZE(m1, FTRP(m1, bp)), 1)), LAMBDA m2 :
      remove_node(m2, hs, bp)))

\* a split that writes the footer of the allocated part with the flag clear
place_split_footer_free(m, hs, bp, asize, remaining) ==
    Let(PUT(m, HDRP(bp), PACK(asize, 1)), LAMBDA m1 :
    Let(PUT(m1, PADD(bp, asize - OVERHEAD), PACK(asize, 0)), LAMBDA m2 :
    Let(remove_node(m2, hs, bp), LAMBDA m3 :
    Let(PUT(m3, PADD(bp, asize - WSIZE), PACK(remaining, 0)), LAMBDA m4 :
    Let(PUT(m4, PADD(bp, asize + remaining - OVERHEAD), PACK(remaining, 0)),
        LAMBDA m5 :
    Let(insert_node(m5, hs, PADD(bp, asize)), LAMBDA m6 :
      coalesce(m6, hs, PADD(bp, asize)).mem))))))

\* a split that starts the remainder 32 bytes too early, inside the part
\* that was allocated
place_split_remainder_early(m, hs, bp, asize, remaining) ==
    Let(PUT(m, HDRP(bp), PACK(asize, 1)), LAMBDA m1 :
    Let(PUT(m1, PADD(bp, asize - OVERHEAD), PACK(asize, 1)), LAMBDA m2 :
    Let(remove_node(m2, hs, bp), LAMBDA m3 :
    Let(PUT(m3, PADD(bp, asize - 2 * OVERHEAD - WSIZE),
            PACK(remaining + 2 * OVERHEAD, 0)), LAMBDA m4 :
    Let(PUT(m4, PADD(bp, asize + remaining - OVERHEAD),
            PACK(remaining + 2 * OVERHEAD, 0)), LAMBDA m5 :
    Let(insert_node(m5, hs, PADD(bp, asize - 2 * OVERHEAD)), LAMBDA m6 :
      coalesce(m6, hs, PADD(bp, asize - 2 * OVERHEAD)).mem))))))

\* place, the split: asize bytes allocated, the remainder a new free block
place_split(m, hs, bp, asize, remaining) ==
    Let(PUT(m, HDRP(bp), PACK(asize, 1)), LAMBDA m1 :
    Let(PUT(m1, PADD(bp, asize - OVERHEAD), PACK(asize, 1)), LAMBDA m2 :
    Let(remove_node(m2, hs, bp), LAMBDA m3 :
    Let(PUT(m3, PADD(bp, asize - WSIZE), PACK(remaining, 0)), LAMBDA m4 :
    Let(PUT(m4, PADD(bp, asize + remaining - OVERHEAD), PACK(remaining, 0)),
        LAMBDA m5 :
    Let(insert_node(m5, hs, PADD(bp, asize)), LAMBDA m6 :
      coalesce(m6, hs, PADD(bp, asize)).mem))))))

\* a place that splits whenever the remainder holds a header and a footer
place_splits_at_overhead(m, hs, bp, asize) ==
    Let(GET_SIZE(m, HDRP(bp)) - asize, LAMBDA remaining :
      IF ULT(remaining, OVERHEAD) THEN place_whole(m, hs, bp)
      ELSE place_split(m, hs, bp, asize, remaining))

place(m, hs, bp, asize) ==
    Let(GET_SIZE(m, HDRP(bp)) - asize, LAMBDA remaining :
      IF ULT(remaining, 2 * OVERHEAD) THEN place_whole(m, hs, bp)
      ELSE place_split(m, hs, bp, asize, remaining))

\* what find_fit yields when its loop never ends (a list that loops)
Hang == -2

RECURSIVE find_fit_loop(_, _, _, _)
find_fit_loop(m, cur_bp, asize, seen) ==
    IF cur_bp = NULL THEN NULL
    ELSE IF cur_bp \in seen THEN Hang
    ELSE IF ULE(asize, GET_SIZE(m, HDRP(cur_bp))) THEN cur_bp
    ELSE Let(GET_PTR(m, PADD(cur_bp, 8)), LAMBDA next :
           find_fit_loop(m, next, asize, seen \cup {cur_bp}))

\* a find_fit that starts its scan at the second block of the list
find_fit_skips_head(m, hs, asize) ==
    Let(GET_PTR(m, LL_START(hs)), LAMBDA head :
      IF head = NULL THEN NULL
      ELSE find_fit_loop(m, GET_PTR(m, PADD(head, 8)), asize, {head}))

find_fit(m, hs, asize) ==
    Let(GET_PTR(m, LL_START(hs)), LAMBDA head : find_fit_loop(m, head, asize, {}))

(* ---------------- arena manager ---------------- *)
\* an extend_heap that writes the new block's header at the old break before
\* it looks at the primitive's result
extend_heap_writes_first(m, hs, brk, maxaddr, words) ==
    LET size == IF words % 2 = 1 THEN words * WSIZE + WSIZE ELSE words * WSIZE
        r == mem_sbrk(brk, maxaddr, size)
        bp == r.ret
    IN  Let(PUT(m, HDRP(brk), PACK(size, 0)), LAMBDA m1 :
          IF bp < 0 THEN [mem |-> m1, brk |-> r.brk, bp |-> NULL]
          ELSE
            Let(PUT(m1, FTRP(m1, bp), PACK(size, 0)), LAMBDA m2 :
            Let(PUT(m2, HDRP(NEXT_BLKP(m2, bp)), PACK(0, 1)), LAMBDA m3 :
            Let(insert_node(m3, hs, bp), LAMBDA m4 :
            Let(coalesce(m4, hs, bp), LAMBDA c :
              [mem |-> c.mem, brk |-> r.brk, bp |-> c.bp])))))

\* an extend_heap that writes no epilogue header after the new block
extend_heap_no_epilogue(m, hs, brk, maxaddr, words) ==
    LET size == IF words % 2 = 1 THEN words * WSIZE + WSIZE ELSE words * WSIZE
        r == mem_sbrk(brk, maxaddr, size)
        bp == r.ret
    IN  IF bp < 0 THEN [mem |-> m, brk |-> r.brk, bp |-> NULL]
        ELSE
          Let(PUT(m, HDRP(bp), PACK(size, 0)), LAMBDA m1 :
          Let(PUT(m1, FTRP(m1, bp), PACK(size, 0)), LAMBDA m2 :
          Let(insert_node(m2, hs, bp), LAMBDA m4 :
          Let(coalesce(m4, hs, bp), LAMBDA c :
            [mem |-> c.mem, brk |-> r.brk, bp |-> c.bp]))))

\* the memory, the break and the block pointer (NULL on failure)
extend_heap(m, hs, brk, maxaddr, words) ==
    LET size == IF words % 2 = 1 THEN words * WSIZE + WSIZE ELSE words * WSIZE
        r == mem_sbrk(brk, maxaddr, size)
        bp == r.ret
    IN  IF bp < 0 THEN [mem |-> m, brk |-> r.brk, bp |-> NULL]
        ELSE
          Let(PUT(m, HDRP(bp), PACK(size, 0)), LAMBDA m1 :
          Let(PUT(m1, FTRP(m1, bp), PACK(size, 0)), LAMBDA m2 :
          Let(PUT(m2, HDRP(NEXT_BLKP(m2, bp)), PACK(0, 1)), LAMBDA m3 :
          Let(insert_node(m3, hs, bp), LAMBDA m4 :
          Let(coalesce(m4, hs, bp), LAMBDA c :
            [mem |-> c.mem, brk |-> r.brk, bp |-> c.bp])))))

\* mm_init on an untouched arena.  ret is mm_init's result, hs the final
\* heap_start, sbrkfail says that a request to the primitive failed, wild that
\* words were stored through the primitive's failure value (the stores are
\* then outside the arena and leave no cell)
mm_init(brk, maxaddr) ==
    Let(mem_sbrk(brk, maxaddr, 4 * WSIZE), LAMBDA r :
      IF r.ret = NULL
      THEN [mem |-> EmptyMem, brk |-> r.brk, hs |-> r.ret, ret |-> -1,
            sbrkfail |-> TRUE, wild |-> FALSE]
      ELSE
        LET hs0 == r.ret
            valid == hs0 >= MemHeap
            hs == PADD(hs0, DSIZE)
        IN  Let(PUT_PTR(EmptyMem, hs0, NULL), LAMBDA m1 :
            Let(PUT(m1, PADD(hs0, WSIZE), PACK(OVERHEAD, 1)), LAMBDA m2 :
            Let(PUT(m2, PADD(hs0, DSIZE), PACK(OVERHEAD, 1)), LAMBDA m3 :
            Let(PUT(m3, PADD(hs0, WSIZE + DSIZE), PACK(0, 1)), LAMBDA m4 :
            Let(IF valid THEN m4 ELSE EmptyMem, LAMBDA m5 :
            Let(extend_heap(m5, hs, r.brk, maxaddr, CHUNKSIZE \div WSIZE),
                LAMBDA e :
              [mem |-> e.mem, brk |-> e.brk, hs |-> hs,
               ret |-> IF e.bp = NULL THEN -1 ELSE 0,
               sbrkfail |-> (~valid) \/ e.bp = NULL, wild |-> ~valid])))))))

(* ---------------- public operations ---------------- *)
\* an adjusted size rounded up to the word, not to the double word
AdjustedSize_rounds_to_word(size) ==
    IF ULE(size, DSIZE) THEN DSIZE + OVERHEAD
    ELSE WSIZE * ((size + OVERHEAD + (WSIZE - 1)) \div WSIZE)

\* the adjusted block size of mm_malloc
AdjustedSize(size) ==
    IF ULE(size, DSIZE) THEN DSIZE + OVERHEAD
    ELSE DSIZE * ((size + OVERHEAD + (DSIZE - 1)) \div DSIZE)

\* an mm_malloc that serves a request of size 0 like any other
mm_malloc_serves_zero(m, hs, brk, maxaddr, size) ==
    Let(AdjustedSize(size), LAMBDA asize :
    Let(find_fit(m, hs, asize), LAMBDA bp :
      IF bp = Hang
      THEN [mem |-> m, brk |-> brk, ret |-> Hang, asize |-> asize, S |-> 0,
            grew |-> 0, incr |-> 0, extmem |-> EmptyMem]
      ELSE IF bp # NULL
      THEN [mem |-> place(m, hs, bp, asize), brk |-> brk, ret |-> bp,
            asize |-> asize, S |-> GET_SIZE(m, HDRP(bp)),
            grew |-> 0, incr |-> 0, extmem |-> EmptyMem]
      ELSE
        Let(max(asize, CHUNKSIZE), LAMBDA extendsize :
        Let(extend_heap(m, hs, brk, maxaddr, extendsize \div WSIZE), LAMBDA e :
          IF e.bp = NULL
          THEN [mem |-> e.mem, brk |-> e.brk, ret |-> NULL, asize |-> asize,
                S |-> 0, grew |-> 1, incr |-> extendsize, extmem |-> EmptyMem]
          ELSE [mem |-> place(e.mem, hs, e.bp, asize), brk |-> e.brk,
                ret |-> e.bp, asize |-> asize,
                S |-> GET_SIZE(e.mem, HDRP(e.bp)),
                grew |-> 1, incr |-> extendsize, extmem |-> e.mem]))))

\* mm_malloc.  Besides the memory, the break and the returned pointer, the
\* record keeps what the call computed on the way: asize, the size S of the
\* block handed to place (0 when place was not called), the number of calls
\* of the primitive and the bytes asked of it, and the memory as it was when
\* extend_heap returned (EmptyMem when it was not called or failed)
mm_malloc(m, hs, brk, maxaddr, size) ==
    IF ULE(size, 0)
    THEN [mem |-> m, brk |-> brk, ret |-> NULL, asize |-> 0, S |-> 0,
          grew |-> 0, incr |-> 0, extmem |-> EmptyMem]
    ELSE
      Let(AdjustedSize(size), LAMBDA asize :
      Let(find_fit(m, hs, asize), LAMBDA bp :
        IF bp = Hang
        THEN [mem |-> m, brk |-> brk, ret |-> Hang, asize |-> asize, S |-> 0,
              grew |-> 0, incr |-> 0, extmem |-> EmptyMem]
        ELSE IF bp # NULL
        THEN [mem |-> place(m, hs, bp, asize), brk |-> brk, ret |-> bp,
              asize |-> asize, S |-> GET_SIZE(m, HDRP(bp)),
              grew |-> 0, incr |-> 0, extmem |-> EmptyMem]
        ELSE
          Let(max(asize, CHUNKSIZE), LAMBDA extendsize :
          Let(extend_heap(m, hs, brk, maxaddr, extendsize \div WSIZE), LAMBDA e :
            IF e.bp = NULL
            THEN [mem |-> e.mem, brk |-> e.brk, ret |-> NULL, asize |-> asize,
                  S |-> 0, grew |-> 1, incr |-> extendsize, extmem |-> EmptyMem]
            ELSE [mem |-> place(e.mem, hs, e.bp, asize), brk |-> e.brk,
                  ret |-> e.bp, asize |-> asize,
                  S |-> GET_SIZE(e.mem, HDRP(e.bp)),
                  grew |-> 1, incr |-> extendsize, extmem |-> e.mem]))))

\* an mm_free that does not coalesce
mm_free_no_coalesce(m, hs, bp) ==
    LET headp == HDRP(bp)
        footp == FTRP(m, bp)
    IN  Let(PUT(m, headp, PACK(GET_SIZE(m, headp), 0)), LAMBDA m1 :
        Let(PUT(m1, footp, PACK(GET_SIZE(m1, footp), 0)), LAMBDA m2 :
          insert_node(m2, hs, bp)))

\* an mm_free that does not put the block into the free list
mm_free_no_insert(m, hs, bp) ==
    LET headp == HDRP(bp)
        footp == FTRP(m, bp)
    IN  Let(PUT(m, headp, PACK(GET_SIZE(m, headp), 0)), LAMBDA m1 :
        Let(PUT(m1, footp, PACK(GET_SIZE(m1, footp), 0)), LAMBDA m2 :
          coalesce(m2, hs, bp).mem))

mm_free(m, hs, bp) ==
    LET headp == HDRP(bp)
        footp == FTRP(m, bp)
    IN  Let(PUT(m, headp, PACK(GET_SIZE(m, headp), 0)), LAMBDA m1 :
        Let(PUT(m1, footp, PACK(GET_SIZE(m1, footp), 0)), LAMBDA m2 :
        Let(insert_node(m2, hs, bp), LAMBDA m3 :
          coalesce(m3, hs, bp).mem)))

\* the loop  for (i = 0; i < n; i++) ptr[i] = old_ptr[i]  : bytes go one at a
\* time from low to high, so a byte already stored is what a later read finds
\* when the destination starts inside the source range (then the first d
\* bytes repeat).  Otherwise every byte read is a byte of m, and whole words
\* of the source arrive as whole words
CopyBytes(m, ptr, old_ptr, n) ==
    LET d == ptr - old_ptr
        dst == ptr..(ptr + n - 1)
        srcr == old_ptr..(old_ptr + n - 1)
    IN  IF d > 0 /\ d < n
        THEN Let({i \in 0..(n - 1) : ByteAt(m, old_ptr + (i % d)) # Unwritten},
                 LAMBDA wr :
               StoreBytes(m, dst, [a \in {ptr + i : i \in wr} |->
                                      ByteAt(m, old_ptr + ((a - ptr) % d))]))
        ELSE Let({q \in DOMAIN m : m[q][2] = WordIx /\ q \in srcr
                                   /\ (q + WSIZE - 1) \in srcr}, LAMBDA whole :
             Let({q \in DOMAIN m \ whole : m[q][2] = WordIx /\
                     \E k \in 0..(WSIZE - 1) : (q + k) \in srcr}, LAMBDA part :
             Let({q \in DOMAIN m : m[q][2] # WordIx /\ q \in srcr} \cup
                 {a \in UNION {q..(q + WSIZE - 1) : q \in part} : a \in srcr},
                 LAMBDA bytes :
               StoreBytes(m, dst, [a \in {q + d : q \in whole \cup bytes} |->
                                      IF (a - d) \in whole THEN m[a - d]
                                      ELSE ByteAt(m, a - d)]))))

\* an mm_realloc that frees the old block before it copies from it
mm_realloc_frees_first(m, hs, brk, maxaddr, bp, size) ==
    IF bp = NULL THEN
      Let(mm_malloc(m, hs, brk, maxaddr, size), LAMBDA r :
        [mem |-> r.mem, brk |-> r.brk, ret |-> r.ret, inner |-> r,
         copied |-> 0, oldblk |-> 0, nullcopy |-> FALSE, crashmem |-> r.mem,
         freed |-> FALSE])
    ELSE IF size = 0 THEN
      [mem |-> mm_free(m, hs, bp), brk |-> brk, ret |-> NULL,
       inner |-> mm_malloc(m, hs, brk, maxaddr, 0),
       copied |-> 0, oldblk |-> 0, nullcopy |-> FALSE, crashmem |-> m,
       freed |-> TRUE]
    ELSE
      Let(GET_SIZE(m, HDRP(bp)), LAMBDA old0 :
      Let(IF ULE(size, old0) THEN size ELSE old0, LAMBDA old :
      Let(mm_malloc(m, hs, brk, maxaddr, size), LAMBDA r :
      Let(mm_free(r.mem, hs, bp), LAMBDA m1 :
      Let(IF r.ret = NULL \/ r.ret = Hang THEN m1
          ELSE CopyBytes(m1, r.ret, bp, old), LAMBDA m2 :
        [mem |-> m2, brk |-> r.brk, ret |-> r.ret, inner |-> r,
         copied |-> old, oldblk |-> old0,
         nullcopy |-> (r.ret = NULL /\ old > 0),
         crashmem |-> r.mem, freed |-> TRUE])))))

\* an mm_realloc that returns null for size 0 without freeing the block
mm_realloc_zero_keeps_block(m, hs, brk, maxaddr, bp, size) ==
    IF bp = NULL THEN
      Let(mm_malloc(m, hs, brk, maxaddr, size), LAMBDA r :
        [mem |-> r.mem, brk |-> r.brk, ret |-> r.ret, inner |-> r,
         copied |-> 0, oldblk |-> 0, nullcopy |-> FALSE, crashmem |-> r.mem,
         freed |-> FALSE])
    ELSE IF size = 0 THEN
      [mem |-> m, brk |-> brk, ret |-> NULL,
       inner |-> mm_malloc(m, hs, brk, maxaddr, 0),
       copied |-> 0, oldblk |-> 0, nullcopy |-> FALSE, crashmem |-> m,
       freed |-> TRUE]
    ELSE
      Let(GET_SIZE(m, HDRP(bp)), LAMBDA old0 :
      Let(IF ULE(size, old0) THEN size ELSE old0, LAMBDA old :
      Let(mm_malloc(m, hs, brk, maxaddr, size), LAMBDA r :
      Let(IF r.ret = NULL \/ r.ret = Hang THEN r.mem
          ELSE CopyBytes(r.mem, r.ret, bp, old), LAMBDA m1 :
        [mem |-> mm_free(m1, hs, bp), brk |-> r.brk, ret |-> r.ret, inner |-> r,
         copied |-> old, oldblk |-> old0,
         nullcopy |-> (r.ret = NULL /\ old > 0),
         crashmem |-> r.mem, freed |-> TRUE]))))

\* mm_realloc.  copied is the number of bytes the copy loop moves, oldblk the
\* size read from the old block's header, inner the call of mm_malloc, nullcopy
\* says that the loop stored through a null ptr (the fresh allocation failed:
\* the stores are outside the arena and leave no cell); crashmem is the memory
\* at that store, mem the memory if the call runs on
mm_realloc(m, hs, brk, maxaddr, bp, size) ==
    IF bp = NULL THEN
      Let(mm_malloc(m, hs, brk, maxaddr, size), LAMBDA r :
        [mem |-> r.mem, brk |-> r.brk, ret |-> r.ret, inner |-> r,
         copied |-> 0, oldblk |-> 0, nullcopy |-> FALSE, crashmem |-> r.mem,
         freed |-> FALSE])
    ELSE IF size = 0 THEN
      [mem |-> mm_free(m, hs, bp), brk |-> brk, ret |-> NULL,
       inner |-> mm_malloc(m, hs, brk, maxaddr, 0),
       copied |-> 0, oldblk |-> 0, nullcopy |-> FALSE, crashmem |-> m,
       freed |-> TRUE]
    ELSE
      Let(GET_SIZE(m, HDRP(bp)), LAMBDA old0 :
      Let(IF ULE(size, old0) THEN size ELSE old0, LAMBDA old :
      Let(mm_malloc(m, hs, brk, maxaddr, size), LAMBDA r :
      Let(IF r.ret = NULL \/ r.ret = Hang THEN r.mem
          ELSE CopyBytes(r.mem, r.ret, bp, old), LAMBDA m1 :
        [mem |-> mm_free(m1, hs, bp), brk |-> r.brk, ret |-> r.ret, inner |-> r,
         copied |-> old, oldblk |-> old0,
         nullcopy |-> (r.ret = NULL /\ old > 0),
         crashmem |-> r.mem, freed |-> TRUE]))))

(* ---------------- walks used to state the properties ---------------- *)
\* the address-order heap walk of check_heap: block pointers from heap_start
\* (the prologue) up to, not including, the block of size 0
RECURSIVE WalkFrom(_, _, _)
WalkFrom(m, bp, brk) ==
    IF bp > brk \/ GET_SIZE(m, HDRP(bp)) <= 0 THEN <<>>
    ELSE <<bp>> \o WalkFrom(m, NEXT_BLKP(m, bp), brk)

HeapWalk(m, hs, brk) == WalkFrom(m, hs, brk)

\* the blocks met by following next links from the list head; a block met a
\* second time is listed a second time and ends the walk
RECURSIVE ListFrom(_, _, _)
ListFrom(m, cur, seen) ==
    IF cur = NULL \/ cur < 0 THEN <<>>
    ELSE IF cur \in seen THEN <<cur>>
    ELSE <<cur>> \o ListFrom(m, GET_PTR(m, PADD(cur, 8)), seen \cup {cur})

FreeList(m, hs) == ListFrom(m, GET_PTR(m, LL_START(hs)), {})

Range(s) == {s[i] : i \in 1..Len(s)}

IsFree(m, bp) == GET_ALLOC(m, HDRP(bp)) = 0

NoAdjacentFree(m, hs, brk) ==
    LET w == HeapWalk(m, hs, brk)
    IN  \A i \in 1..(Len(w) - 1) : ~(IsFree(m, w[i]) /\ IsFree(m, w[i + 1]))

(* ---------------- state ---------------- *)
VARIABLES
    mem,           \* the bytes of the arena that were written
    mem_brk,       \* the primitive's break
    mem_max_addr,  \* the primitive's limit
    heap_start,    \* the global heap_start
    phase,         \* "start", "ready", "failed" (mm_init returned -1),
                   \* "crashed" (a store through an invalid pointer trapped)
                   \* or "hung" (find_fit never returned)
    live,          \* the caller's allocations: pointer |-> requested size
    last,          \* what the last call was and what it did
    nops           \* calls made since mm_init

vars == <<mem, mem_brk, mem_max_addr, heap_start, phase, live, last, nops>>

\* no value returned: the call did not return
NoRet == -3

Rec(op, p, size, ret) ==
    [op |-> op, p |-> p, size |-> size, ret |-> ret, asize |-> 0, S |-> 0,
     grew |-> 0, incr |-> 0, copied |-> 0, oldblk |-> 0, extok |-> TRUE,
     mfail |-> FALSE,
     wild |-> FALSE, chain |-> 0, reuse |-> NULL]

\* the fields a call of mm_malloc (record r) contributes
WithMalloc(rec, r, hs) ==
    [rec EXCEPT !.asize = r.asize, !.S = r.S, !.grew = r.grew, !.incr = r.incr,
                !.extok = (r.extmem = EmptyMem) \/ NoAdjacentFree(r.extmem, hs, r.brk)]

Init ==
    /\ mem = EmptyMem
    /\ mem_brk = MemHeap
    /\ mem_max_addr \in {MemHeap + b : b \in MaxHeaps}
    /\ heap_start = NULL
    /\ phase = "start"
    /\ live = EmptyMem
    /\ last = Rec("none", NULL, 0, NULL)
    /\ nops = 0

\* the caller calls mm_init once, first
MmInit ==
    /\ phase = "start"
    /\ \E r \in {mm_init(mem_brk, mem_max_addr)} :
           \E ub \in {"trap", "run"} :
             /\ (ub = "trap") => r.wild
             /\ IF ub = "trap"
                THEN /\ phase' = "crashed"
                     /\ mem' = mem /\ mem_brk' = mem_brk
                     /\ heap_start' = SbrkFail
                     /\ last' = [Rec("init", NULL, 0, NoRet) EXCEPT
                                   !.wild = TRUE, !.mfail = TRUE]
                ELSE /\ phase' = IF r.ret = 0 THEN "ready" ELSE "failed"
                     /\ mem' = r.mem /\ mem_brk' = r.brk
                     /\ heap_start' = r.hs
                     /\ last' = [Rec("init", NULL, 0, r.ret) EXCEPT
                                   !.wild = r.wild, !.mfail = r.sbrkfail,
                                   !.extok = (r.ret # 0) \/
                                             NoAdjacentFree(r.mem, r.hs, r.brk)]
    /\ UNCHANGED <<mem_max_addr, live, nops>>

Malloc(size) ==
    /\ phase = "ready"
    /\ nops < MaxOps
    /\ nops' = nops + 1
    /\ Cardinality(DOMAIN live) < MaxLive
    /\ \E r \in {mm_malloc(mem, heap_start, mem_brk, mem_max_addr, size)} :
           /\ mem' = r.mem /\ mem_brk' = r.brk
           /\ phase' = IF r.ret = Hang THEN "hung" ELSE phase
           /\ live' = IF r.ret = NULL \/ r.ret = Hang THEN live
                      ELSE (r.ret :> size) @@ live
           /\ last' = [WithMalloc(Rec("malloc", NULL, size, r.ret), r, heap_start)
                         EXCEPT !.mfail = (size # 0 /\ r.ret = NULL),
                                !.reuse = IF last.op = "free" /\ size # 0
                                             /\ last.chain = size
                                          THEN last.p ELSE NULL]
    /\ UNCHANGED <<mem_max_addr, heap_start>>

Free(p) ==
    /\ phase = "ready"
    /\ nops < MaxOps
    /\ nops' = nops + 1
    /\ p \in DOMAIN live
    /\ mem' = mm_free(mem, heap_start, p)
    /\ live' = [q \in DOMAIN live \ {p} |-> live[q]]
    /\ last' = [Rec("free", p, 0, NULL) EXCEPT
                  !.chain = IF last.op = "malloc" /\ last.ret = p
                            THEN last.size ELSE 0]
    /\ UNCHANGED <<mem_brk, mem_max_addr, heap_start, phase>>

Realloc(p, size) ==
    /\ phase = "ready"
    /\ nops < MaxOps
    /\ nops' = nops + 1
    /\ p \in DOMAIN live \cup {NULL}
    /\ (p = NULL) => Cardinality(DOMAIN live) < MaxLive
    /\ \E r \in {mm_realloc(mem, heap_start, mem_brk, mem_max_addr, p, size)} :
       LET rec == [WithMalloc(Rec("realloc", p, size, r.ret), r.inner, heap_start)
                     EXCEPT !.copied = r.copied, !.oldblk = r.oldblk,
                            !.mfail = (size # 0 /\ r.inner.ret = NULL),
                            !.wild = r.nullcopy]
           rest == [q \in DOMAIN live \ {p} |-> live[q]]
       IN  \E ub \in {"trap", "run"} :
             /\ (ub = "trap") => r.nullcopy
             /\ IF ub = "trap"
                THEN /\ phase' = "crashed"
                     /\ mem' = r.crashmem /\ mem_brk' = r.brk
                     /\ live' = live
                     /\ last' = [rec EXCEPT !.ret = NoRet]
                ELSE /\ phase' = IF r.ret = Hang THEN "hung" ELSE phase
                     /\ mem' = r.mem /\ mem_brk' = r.brk
                     /\ live' = IF r.ret = NULL \/ r.ret = Hang
                                THEN (IF r.freed THEN rest ELSE live)
                                ELSE (r.ret :> size) @@ rest
                     /\ last' = rec
    /\ UNCHANGED <<mem_max_addr, heap_start>>

\* the byte the caller stores at offset off of allocation p
DataByte(p, off) == ((p \div DSIZE) + off) % 256

\* the caller stores bytes into the payload it asked for
Write(p) ==
    /\ phase = "ready"
    /\ nops < MaxOps
    /\ nops' = nops + 1
    /\ p \in DOMAIN live
    /\ LET n == live[p]
           offs == {o \in FillOffsets \cup {n - 1} : o < n}
       IN  mem' = StoreBytes(mem, {p + o : o \in offs},
                             [a \in {p + o : o \in offs} |->
                                <<DataByte(p, a - p), DataIx>>])
    /\ last' = Rec("write", p, 0, NULL)
    /\ UNCHANGED <<mem_brk, mem_max_addr, heap_start, phase, live>>

Next ==
    \/ MmInit
    \/ \E size \in Sizes \cup {0} : Malloc(size)
    \/ \E p \in DOMAIN live : Free(p)
    \/ \E p \in DOMAIN live \cup {NULL}, size \in Sizes \cup {0} : Realloc(p, size)
    \/ \E p \in DOMAIN live : Write(p)

Spec == Init /\ [][Next]_vars

(* ---------------- a caller with requests around CHUNKSIZE ---------------- *)
\* request sizes: adjusted sizes 32, 48, CHUNKSIZE and CHUNKSIZE + 16
LargeSizes == {1, 24, 4080, 4090}
\* arena budgets: room for the first chunk; room for a growth of
\* CHUNKSIZE + 16 after it
LargeHeaps == {4 * WSIZE + CHUNKSIZE, 4 * WSIZE + 2 * CHUNKSIZE + DSIZE}

InitLarge ==
    /\ mem = EmptyMem
    /\ mem_brk = MemHeap
    /\ mem_max_addr \in {MemHeap + b : b \in LargeHeaps}
    /\ heap_start = NULL
    /\ phase = "start"
    /\ live = EmptyMem
    /\ last = Rec("none", NULL, 0, NULL)
    /\ nops = 0

NextLarge ==
    \/ MmInit
    \/ \E size \in LargeSizes : Malloc(size)
    \/ \E p \in DOMAIN live : Free(p)
    \/ \E p \in DOMAIN live \cup {NULL}, size \in LargeSizes : Realloc(p, size)

SpecLarge == InitLarge /\ [][NextLarge]_vars

(* ---------------- a caller with requests near the top of size_t -------- *)
\* the size_t value 2^64 - k
FromTop(k) == 0 - k
\* request sizes: 1, 24, 2^64 - 1, 2^64 - 24 and 2^64 - 40
WideSizes == {1, 24, FromTop(1), FromTop(24), FromTop(40)}

\* the last call got a block for an adjusted size below the smallest block
Wrapped ==
    last.op = "malloc" /\ last.ret # NULL /\ ULT(last.asize, 2 * OVERHEAD)

\* the caller stops at the first call that wrapped
NextWide ==
    \/ MmInit
    \/ \E size \in WideSizes : ~Wrapped /\ Malloc(size)
    \/ \E p \in DOMAIN live : ~Wrapped /\ Free(p)

SpecWide == Init /\ [][NextWide]_vars

(* ---------------- properties ---------------- *)
Ready == phase = "ready"

FreeBlocksOfWalk(m, hs, brk) ==
    {b \in Range(HeapWalk(m, hs, brk)) : IsFree(m, b)}

\* C1, list soundness: after mm_init and after every call, the blocks reached
\* from the list head by next links are exactly the blocks of the heap walk
\* whose allocated flag is 0, and no block is reached twice
C1_ListSoundness ==
    Ready =>
      LET fl == FreeList(mem, heap_start)
      IN  /\ Range(fl) = FreeBlocksOfWalk(mem, heap_start, mem_brk)
          /\ Cardinality(Range(fl)) = Len(fl)

\* a free just merged a block into the free block before it, and the list
\* holds two blocks while the caller still holds one
C1_Witness ==
    /\ Ready
    /\ last.op = "free"
    /\ Len(FreeList(mem, heap_start)) = 2
    /\ Cardinality(DOMAIN live) = 1
    /\ \E b \in FreeBlocksOfWalk(mem, heap_start, mem_brk) :
          b < last.p /\ last.p < NEXT_BLKP(mem, b)

\* C2, tag agreement: every block of the heap walk, prologue included, has a
\* footer word equal to its header word
C2_TagAgreement ==
    Ready =>
      \A b \in Range(HeapWalk(mem, heap_start, mem_brk)) :
         GET(mem, HDRP(b)) = GET(mem, FTRP(mem, b))

\* place has split a block: an allocated block is followed by a free one, and
\* the walk holds at least four blocks
C2_Witness ==
    /\ Ready
    /\ last.op = "malloc"
    /\ last.S - last.asize >= 2 * OVERHEAD
    /\ Len(HeapWalk(mem, heap_start, mem_brk)) >= 4

\* C3, no adjacent free blocks: when a call has returned, and when extend_heap
\* returned inside it, no two neighbours of the heap walk are both free
C3_NoAdjacentFree ==
    Ready => (NoAdjacentFree(mem, heap_start, mem_brk) /\ last.extok)

\* the last free merged with both neighbours in an arena that has grown: one
\* free block is all that is left
C3_Witness ==
    /\ Ready
    /\ last.op = "free"
    /\ DOMAIN live = {}
    /\ mem_brk > MemHeap + 4 * WSIZE + CHUNKSIZE
    /\ Len(FreeList(mem, heap_start)) = 1
    /\ Len(HeapWalk(mem, heap_start, mem_brk)) = 2

\* C4, resize is all-or-nothing: when the fresh allocation of
\* mm_realloc(bp, size), bp non-null and size > 0, fails, the call returns
\* null, copies nothing, stores through no invalid pointer, does not free bp,
\* and the old block stays allocated
C4_ResizeAllOrNothing ==
    (last.op = "realloc" /\ last.p # NULL /\ last.size > 0 /\ last.mfail) =>
      /\ last.ret = NULL
      /\ phase = "ready"
      /\ last.copied = 0
      /\ ~last.wild
      /\ last.p \in DOMAIN live
      /\ GET_ALLOC(mem, HDRP(last.p)) = 1

\* C5, exhaustion path: a call mm_malloc(size), size > 0, made when no block of
\* the free list fits and the primitive refuses the growth, returns null and
\* leaves the break, every word of the arena (tags, list head, links) and
\* heap_start as they were
C5_ExhaustionLeavesHeap ==
    [][ \A size \in Sizes :
          ( /\ last'.op = "malloc" /\ last'.size = size
            /\ find_fit(mem, heap_start, AdjustedSize(size)) = NULL
            /\ mem_sbrk(mem_brk, mem_max_addr,
                        max(AdjustedSize(size), CHUNKSIZE)).ret = SbrkFail )
          => ( /\ last'.ret = NULL
               /\ mem' = mem
               /\ mem_brk' = mem_brk
               /\ heap_start' = heap_start
               /\ live' = live
               /\ phase' = "ready" ) ]_vars

\* a malloc has failed on an exhausted primitive while the caller holds a block
C5_Witness ==
    /\ Ready
    /\ last.op = "malloc" /\ last.size > 0 /\ last.ret = NULL
    /\ last.grew = 1
    /\ DOMAIN live # {}

\* C6, initialize failure: whenever a request of mm_init to the primitive
\* fails, mm_init returns -1 and has stored nothing through the failed result
C6_InitFailure ==
    (last.op = "init" /\ last.mfail) => (last.ret = -1 /\ ~last.wild)

min(x, y) == IF x < y THEN x ELSE y

\* C7, resize preserves content: when mm_realloc(p, size), p a live allocation
\* of n bytes and size > 0, gets its fresh block, it returns a non-null q whose
\* first min(n, size) bytes are the bytes p's payload held before the call
C7_ResizePreservesContent ==
    [][ \A p \in DOMAIN live :
          (last'.op = "realloc" /\ last'.p = p /\ last'.size > 0 /\ ~last'.mfail)
          => ( /\ last'.ret > 0
               /\ \A i \in 0..(min(live[p], last'.size) - 1) :
                     ByteAt(mem', last'.ret + i) = ByteAt(mem, p + i) ) ]_vars

\* a realloc to the same size has returned a block that holds the caller's
\* bytes at its first and last offset, in a different place
C7_Witness ==
    /\ Ready
    /\ last.op = "realloc" /\ last.p # NULL /\ last.ret > 0 /\ last.ret # last.p
    /\ last.size = 24
    /\ ByteAt(mem, last.ret) = <<DataByte(last.p, 0), DataIx>>
    /\ ByteAt(mem, last.ret + 23) = <<DataByte(last.p, 23), DataIx>>

\* C8, resize copy length: mm_realloc(bp, size), bp non-null and size > 0,
\* copies exactly min(old payload size, size) bytes, the old payload size being
\* the old block's size less the 16 bytes of header and footer
C8_ResizeCopyLength ==
    (last.op = "realloc" /\ last.p # NULL /\ last.size > 0 /\ ~last.mfail) =>
      last.copied = min(last.oldblk - OVERHEAD, last.size)

\* C9, free-then-reuse: p = mm_malloc(n) non-null, then mm_free(p), then
\* mm_malloc(n): the second call returns p and does not call the primitive
C9_FreeThenReuse ==
    (last.op = "malloc" /\ last.reuse # NULL) =>
      (last.ret = last.reuse /\ last.grew = 0)

\* the sequence has happened in a heap whose free list held another block that
\* fits, and the reused block is again the whole of a block the caller holds
C9_Witness ==
    /\ Ready
    /\ last.op = "malloc" /\ last.reuse # NULL
    /\ last.ret \in DOMAIN live
    /\ Cardinality(DOMAIN live) = 2
    /\ Len(FreeList(mem, heap_start)) >= 2

\* C10, split threshold: after mm_malloc placed asize bytes in a free block of
\* size S, if S - asize >= 32 the block at bp is allocated with size asize and
\* the next block is free, of size S - asize, and in the free list; otherwise
\* the block at bp is allocated with size S.  No free block of the heap walk
\* is smaller than 32 bytes
C10_SplitThreshold ==
    Ready =>
      /\ \A b \in FreeBlocksOfWalk(mem, heap_start, mem_brk) :
            GET_SIZE(mem, HDRP(b)) >= 2 * OVERHEAD
      /\ (last.op = "malloc" /\ last.ret # NULL) =>
           LET bp == last.ret
               rest == PADD(bp, last.asize)
           IN  /\ last.S >= last.asize
               /\ GET_ALLOC(mem, HDRP(bp)) = 1
               /\ IF last.S - last.asize >= 2 * OVERHEAD
                  THEN /\ GET_SIZE(mem, HDRP(bp)) = last.asize
                       /\ GET(mem, HDRP(rest)) = PACK(last.S - last.asize, 0)
                       /\ rest \in Range(FreeList(mem, heap_start))
                       /\ rest \in Range(HeapWalk(mem, heap_start, mem_brk))
                  ELSE /\ GET_SIZE(mem, HDRP(bp)) = last.S
                       /\ NEXT_BLKP(mem, bp) \notin
                            Range(FreeList(mem, heap_start))

\* a malloc took a whole block that was 16 bytes larger than its asize
C10_Witness ==
    /\ Ready
    /\ last.op = "malloc" /\ last.ret # NULL
    /\ last.S - last.asize = OVERHEAD

\* C11, alignment: the primitive's first address being a multiple of 16, after
\* mm_init and after every call each block of the heap walk has a payload
\* address that is a multiple of 16 and a header that holds a multiple of 16
\* (with the allocated flag in bit 0), and every pointer handed to the caller
\* is a multiple of 16
C11_Alignment ==
    (Ready /\ MemHeap % DSIZE = 0) =>
      /\ \A b \in Range(HeapWalk(mem, heap_start, mem_brk)) :
            /\ b % DSIZE = 0
            /\ GET(mem, HDRP(b)) % DSIZE \in {0, 1}
      /\ \A p \in DOMAIN live : p % DSIZE = 0
      /\ (last.ret > 0) => (last.ret % DSIZE = 0)

\* a request of 24 bytes was placed while the caller held another block, and
\* the heap walk holds four blocks or more
C11_Witness ==
    /\ Ready
    /\ last.op = "malloc" /\ last.size = 24 /\ last.ret > 0
    /\ Cardinality(DOMAIN live) = 2
    /\ Len(HeapWalk(mem, heap_start, mem_brk)) >= 4

\* C12, resize degenerate cases: mm_realloc(NULL, n) returns the pointer and
\* leaves the memory and the break that mm_malloc(n) yields from the same
\* state; mm_realloc(p, 0), p a live allocation, returns null, leaves the
\* memory that mm_free(p) yields from the same state, and p is live no more
C12_ResizeDegenerate ==
    [][ (last'.op = "realloc" /\ phase = "ready") =>
          /\ (last'.p = NULL) =>
                \E r \in {mm_malloc(mem, heap_start, mem_brk, mem_max_addr,
                                    last'.size)} :
                   /\ last'.ret = r.ret
                   /\ mem' = r.mem
                   /\ mem_brk' = r.brk
                   /\ heap_start' = heap_start
          /\ (last'.p # NULL /\ last'.size = 0) =>
                /\ last'.ret = NULL
                /\ mem' = mm_free(mem, heap_start, last'.p)
                /\ mem_brk' = mem_brk
                /\ heap_start' = heap_start
                /\ last'.p \notin DOMAIN live' ]_vars

\* mm_realloc(p, 0) has returned: p's block merged with a free neighbour and
\* the caller holds another block
C12_Witness ==
    /\ Ready
    /\ last.op = "realloc" /\ last.p # NULL /\ last.size = 0 /\ last.ret = NULL
    /\ last.p \notin Range(FreeList(mem, heap_start))
    /\ \E b \in Range(FreeList(mem, heap_start)) :
          b <= last.p /\ last.p < NEXT_BLKP(mem, b)
    /\ DOMAIN live # {}

\* C13, invalid size: mm_malloc(0), called directly or by mm_realloc(NULL, 0),
\* returns null, does not call the primitive and leaves every word of the
\* arena (tags, list head, links), the break and heap_start as they were
C13_ZeroSizeNoOp ==
    [][ ( /\ phase = "ready"
          /\ last'.size = 0
          /\ \/ last'.op = "malloc"
             \/ last'.op = "realloc" /\ last'.p = NULL )
        => ( /\ last'.ret = NULL
             /\ last'.grew = 0
             /\ mem' = mem
             /\ mem_brk' = mem_brk
             /\ heap_start' = heap_start
             /\ live' = live
             /\ phase' = "ready" ) ]_vars

\* mm_malloc(0) has returned null in a heap with a block in the free list and
\* a block in the caller's hands
C13_Witness ==
    /\ Ready
    /\ last.op = "malloc" /\ last.size = 0 /\ last.ret = NULL
    /\ Len(FreeList(mem, heap_start)) >= 1
    /\ DOMAIN live # {}

\* the first block, in list order from the head, of size asize or more; NULL
\* when the list holds none
FirstFit(m, hs, asize) ==
    LET fl == FreeList(m, hs)
        fits == {i \in 1..Len(fl) : GET_SIZE(m, HDRP(fl[i])) >= asize}
    IN  IF fits = {} THEN NULL
        ELSE fl[CHOOSE i \in fits : \A j \in fits : i <= j]

\* C14, first fit: a call of mm_malloc with size > 0 (made directly or by
\* mm_realloc) returns the first block of the free list, in list order from
\* the head, whose size is at least the adjusted size, without calling the
\* primitive; when the list holds no such block it calls the primitive once,
\* for max(adjusted size, CHUNKSIZE) bytes, and returns null when that fails
\* and a block that ends at the new break otherwise
C14_FirstFit ==
    [][ (phase = "ready" /\ last'.op \in {"malloc", "realloc"} /\ last'.size > 0)
        => \E asize \in {AdjustedSize(last'.size)} :
           \E want \in {FirstFit(mem, heap_start, asize)} :
             IF want # NULL
             THEN /\ last'.ret = want
                  /\ last'.grew = 0
                  /\ mem_brk' = mem_brk
             ELSE /\ last'.grew = 1
                  /\ last'.incr = max(asize, CHUNKSIZE)
                  /\ IF mem_brk + last'.incr > mem_max_addr
                     THEN last'.ret \in {NULL, NoRet} /\ mem_brk' = mem_brk
                     ELSE /\ mem_brk' = mem_brk + last'.incr
                          /\ last'.ret > 0
                          /\ NEXT_BLKP(mem', last'.ret) <= mem_brk'
                          /\ last'.ret + asize > mem_brk ]_vars

\* a request of 4090 bytes (adjusted: CHUNKSIZE + 16) passed over the free
\* list and was served by one growth of CHUNKSIZE + 16 bytes
C14_Witness ==
    /\ Ready
    /\ last.op = "malloc" /\ last.size = 4090 /\ last.ret > 0
    /\ last.grew = 1 /\ last.incr = CHUNKSIZE + DSIZE

\* C15, adjusted size: for every request size of 1 .. 2^64 - 1 the adjusted
\* size of mm_malloc is a multiple of 16, at least 32, at least size + 16 and
\* the smallest such; and a non-null pointer mm_malloc(size) returns is that
\* of an allocated block whose size less 16 is at least size
C15_AdjustedSize ==
    (last.op = "malloc" /\ last.size # 0) =>
      /\ last.asize = AdjustedSize(last.size)
      /\ last.asize % DSIZE = 0
      /\ ~ULT(last.asize, 2 * OVERHEAD)
      /\ ~ULT(last.asize - OVERHEAD, last.size)
      /\ last.asize = 2 * OVERHEAD \/ ULT(last.asize - 2 * OVERHEAD, last.size)
      /\ (last.ret # NULL) =>
            /\ GET_ALLOC(mem, HDRP(last.ret)) = 1
            /\ ~ULT(GET_SIZE(mem, HDRP(last.ret)) - OVERHEAD, last.size)

\* the sum of the sizes of the blocks w[i], ..., w[Len(w)]
RECURSIVE SumSizes(_, _, _)
SumSizes(m, w, i) ==
    IF i > Len(w) THEN 0
    ELSE GET_SIZE(m, HDRP(w[i])) + SumSizes(m, w, i + 1)

\* C16, sentinels and tiling: whenever mm_init has succeeded, the prologue
\* header and footer hold (16, allocated) at the 2nd and 3rd word of the
\* arena, the last word of the arena is an epilogue header (0, allocated), the
\* heap walk starts at the prologue, each block starts where the one before
\* ends, the walk ends at the epilogue and the sizes walked add up to the
\* arena's size less 16; neither sentinel is in the free list
C16_SentinelsAndTiling ==
    Ready =>
      LET w == HeapWalk(mem, heap_start, mem_brk)
          fl == FreeList(mem, heap_start)
      IN  /\ heap_start = MemHeap + DSIZE
          /\ GET(mem, MemHeap + WSIZE) = PACK(OVERHEAD, 1)
          /\ GET(mem, MemHeap + DSIZE) = PACK(OVERHEAD, 1)
          /\ GET(mem, mem_brk - WSIZE) = PACK(0, 1)
          /\ Len(w) >= 1 /\ w[1] = heap_start
          /\ \A i \in 1..(Len(w) - 1) :
                w[i + 1] = w[i] + GET_SIZE(mem, HDRP(w[i]))
          /\ HDRP(NEXT_BLKP(mem, w[Len(w)])) = mem_brk - WSIZE
          /\ SumSizes(mem, w, 1) = (mem_brk - MemHeap) - DSIZE
          /\ heap_start \notin Range(fl)
          /\ mem_brk \notin Range(fl)

\* the arena has grown twice and a free has just left four blocks or more
\* between the sentinels
C16_Witness ==
    /\ Ready
    /\ last.op = "free"
    /\ mem_brk = MemHeap + 4 * WSIZE + 2 * CHUNKSIZE
    /\ Len(HeapWalk(mem, heap_start, mem_brk)) >= 4

\* the free block of the heap walk that holds address p, as a set
HolderOf(m, hs, brk, p) ==
    {b \in FreeBlocksOfWalk(m, hs, brk) : b <= p /\ p < NEXT_BLKP(m, b)}

\* C17 as stated, most-recently-freed-first: right after mm_free(p) returns,
\* the free block that holds p's former payload is the head of the free list
C17_FreedBlockIsHead ==
    (Ready /\ last.op = "free") =>
      LET fl == FreeList(mem, heap_start)
      IN  /\ Len(fl) >= 1
          /\ fl[1] \in HolderOf(mem, heap_start, mem_brk, last.p)

\* sequence s without x
Without(s, x) == SelectSeq(s, LAMBDA b : b # x)

\* C17 amended: when the block before p is allocated at the call, mm_free(p)
\* leaves the block at p, merged with a free successor if there is one, at
\* the head of the list, in front of the other blocks in their old order;
\* when the block before p is free, the merged block starts at that
\* predecessor and stays where the predecessor was in the list.  In both
\* cases a free successor of p leaves the list and nothing else moves
C17_FreedBlockPosition ==
    [][ (phase = "ready" /\ last'.op = "free") =>
          LET p == last'.p
              pre == FreeList(mem, heap_start)
              post == FreeList(mem', heap_start)
              q == PREV_BLKP(mem, p)
              nxt == NEXT_BLKP(mem, p)
          IN  IF IsFree(mem, q)
              THEN /\ post = Without(pre, nxt)
                   /\ q \in HolderOf(mem', heap_start, mem_brk, p)
              ELSE /\ post = <<p>> \o Without(pre, nxt)
                   /\ p \in HolderOf(mem', heap_start, mem_brk, p) ]_vars

\* mm_free(p) has merged p into the free block before it, and that block is
\* not the head of the list
C17_Witness ==
    /\ Ready
    /\ last.op = "free"
    /\ Len(FreeList(mem, heap_start)) >= 2
    /\ \E b \in HolderOf(mem, heap_start, mem_brk, last.p) :
          b < last.p /\ b # FreeList(mem, heap_start)[1]

\* the cells that differ between m and m2.  A byte that differs between the
\* two is covered by one of them
ChangedCells(m, m2) ==
    {a \in DOMAIN m \cup DOMAIN m2 :
        a \notin DOMAIN m \/ a \notin DOMAIN m2 \/ m[a] # m2[a]}

\* the first address after the payload of the block at p
PayloadEnd(m, p) == p + GET_SIZE(m, HDRP(p)) - OVERHEAD

\* the payload of the block at q in m holds in m2 the bytes it holds in m,
\* D being the cells that differ
SamePayload(m, m2, q, D) ==
    \E hi \in {PayloadEnd(m, q)} :
      \A a \in D :
         (q < a + WSIZE /\ a < hi) =>
            \A k \in 0..(WSIZE - 1) :
               (q <= a + k /\ a + k < hi) =>
                  ByteAt(m2, a + k) = ByteAt(m, a + k)

\* C18, live payloads: a call of mm_malloc, mm_free or mm_realloc, also one
\* in which the primitive fails, leaves every byte between header and footer
\* of every block the caller holds, other than the call's argument, as it
\* was, and leaves that block's header and footer as they were
C18_LivePayloadsKept ==
    [][ (phase = "ready" /\ last'.op \in {"malloc", "free", "realloc"}) =>
          \E D \in {ChangedCells(mem, mem')} :
            \A q \in DOMAIN live \ {last'.p} :
               /\ SamePayload(mem, mem', q, D)
               /\ GET(mem', HDRP(q)) = GET(mem, HDRP(q))
               /\ GET(mem', FTRP(mem, q)) = GET(mem, FTRP(mem, q)) ]_vars

\* mm_realloc has copied into a fresh block while the caller holds another
\* block with its own bytes at the first and last offset
C18_Witness ==
    /\ Ready
    /\ last.op = "realloc" /\ last.ret > 0 /\ last.copied > 0
    /\ \E q \in DOMAIN live \ {last.ret} :
          /\ ByteAt(mem, q) = <<DataByte(q, 0), DataIx>>
          /\ ByteAt(mem, q + live[q] - 1) = <<DataByte(q, live[q] - 1), DataIx>>

\* C19, no overlapping allocations: in every state after mm_init each pointer
\* the caller holds is a block of the heap walk with the allocated flag set,
\* its payload lies after the prologue and before the epilogue header, and
\* the payloads of two such pointers share no byte
C19_NoOverlap ==
    Ready =>
      /\ \A p \in DOMAIN live :
            /\ GET_ALLOC(mem, HDRP(p)) = 1
            /\ p \in Range(HeapWalk(mem, heap_start, mem_brk))
            /\ heap_start < HDRP(p)
            /\ p < PayloadEnd(mem, p)
            /\ PayloadEnd(mem, p) <= mem_brk - DSIZE
      /\ \A p, q \in DOMAIN live :
            (p < q) => (PayloadEnd(mem, p) <= q)

\* the caller holds two blocks that are neighbours, and the free list holds
\* a block before them and a block after them
C19_Witness ==
    /\ Ready
    /\ \E p, q \in DOMAIN live :
          /\ NEXT_BLKP(mem, p) = q
          /\ \E b, c \in Range(FreeList(mem, heap_start)) : b < p /\ q < c

\* C20, free-list linkage: in every state after mm_init the blocks met from
\* the head by next links are all different, the first has a null previous
\* link, the last a null next link, and the previous link of each block's
\* successor is that block; a scan of the whole list by find_fit ends, and no
\* call has ever failed to return from find_fit
C20_ListLinkage ==
    /\ phase # "hung"
    /\ Ready =>
         LET fl == FreeList(mem, heap_start)
         IN  /\ Cardinality(Range(fl)) = Len(fl)
             /\ (Len(fl) >= 1) =>
                   /\ GET_PTR(mem, fl[1]) = NULL
                   /\ GET_PTR(mem, PADD(fl[Len(fl)], 8)) = NULL
             /\ \A i \in 1..(Len(fl) - 1) :
                   /\ GET_PTR(mem, PADD(fl[i], 8)) = fl[i + 1]
                   /\ GET_PTR(mem, fl[i + 1]) = fl[i]
             /\ find_fit(mem, heap_start, mem_brk) = NULL

\* the free list holds three blocks after a block left its head
C20_Witness ==
    /\ Ready
    /\ last.op \in {"malloc", "realloc"} /\ last.ret > 0
    /\ Len(FreeList(mem, heap_start)) >= 3

====
